---- MODULE Spec2Model ----
(***************************************************************************)
(* Model of padertorch/contrib/cb/track.py: the hook based tracking        *)
(* session `track`, the combinator `tracker_list`, the example trackers    *)
(* Tracker / ParameterTracker / ShapeTracker / IOPNumTracker and the       *)
(* identity based weak set.                                                *)
(*                                                                         *)
(* A network is a tree of modules 1..n (parent[m] < m, parent[1] = 0), so  *)
(* module.children() of m is the ascending list of the nodes whose parent  *)
(* is m.  torch's Module.__call__ is modelled by Call (forward pre hooks   *)
(* run, the forward frame is entered) and Return (the forward frame        *)
(* returns, forward hooks run); a forward that raises leaves its frame     *)
(* without running the forward hooks.                                      *)
(***************************************************************************)
EXTENDS Integers, Sequences, FiniteSets, TLC

\* ------------------------------------------------------------------ bounds
MaxCalls == 3
MaxReplayCalls == 2
MaxObjects == 3
MaxAddr == 2
MaxTrackers == 2
MaxLen == 2
MaxParams == 1

\* ------------------------------------------------------------- vocabulary
ModuleKinds == {"Sequential", "Linear"}
TrackerKinds == {"Tracker", "ParameterTracker"}
Exceptions == {"ValueError"}
Sessions == 1..2
None == "None"
\* an attribute that has not been assigned yet
Unset == <<>>

VARIABLES
    parent,              \* the module tree: parent[m], 0 for the root
    kind,                \* kind[m]: module.__class__
    leaf_types,          \* the leaf_types argument of track
    forward_pre_hooks,   \* per module: the registered forward pre hooks
    forward_hooks,       \* per module: the registered forward hooks
    sess,                \* per session: the closure state of one track() call
    cur,                 \* the session whose with-body is running, 0 if none
    pyStack,             \* the forward frames being executed, outermost first
    exc,                 \* the exception pending in the with-body, or None
    calls,               \* module executions started in the current session
    record,              \* TRUE: the second session repeats the first's computation
    trace,               \* the computation of session 1 (when record)
    pos,                 \* the next event of trace to repeat in session 2
    heap,                \* identity set: the objects allocated so far
    data,                \* identity set: _IDBasedWeakSet.data, id -> weak reference
    added,               \* identity set: the objects add() was called with
    last_error,          \* identity set: the error of the last add(), or None
    requires_grad,       \* requires_grad[x]: the flag of the tensor heap[x]
    iop,                 \* a session run with IOPNumTracker: its shared dict and trackers
    shape_tracker        \* a ShapeTracker, with the input and output of its module

vars == <<parent, kind, leaf_types, forward_pre_hooks, forward_hooks, sess, cur,
          pyStack, exc, calls, record, trace, pos,
          heap, data, added, last_error, requires_grad, iop, shape_tracker>>

netVars == <<parent, kind, leaf_types>>
setVars == <<heap, data, added, last_error>>
trackVars == <<forward_pre_hooks, forward_hooks, sess, cur, pyStack, exc, calls,
               record, trace, pos>>
iopVars == <<requires_grad, iop>>
shapeVars == <<shape_tracker>>

\* ------------------------------------------------------------ the module tree
Nodes == 1..Len(parent)

Root == 1

Children(n) == {m \in Nodes : parent[m] = n}

RECURSIVE Ancestors(_)
Ancestors(n) == IF parent[n] = 0 THEN {} ELSE {parent[n]} \cup Ancestors(parent[n])

\* module.modules(): the module and every nested sub-module
Subtree(n) == {m \in Nodes : m = n \/ n \in Ancestors(m)}

\* ascending enumeration of a finite set of integers
RECURSIVE SetToSeq(_)
SetToSeq(S) ==
    IF S = {} THEN <<>>
    ELSE LET m == CHOOSE x \in S : \A y \in S : x <= y
         IN <<m>> \o SetToSeq(S \ {m})

\* module.children(), in registration order
ChildList(n) == SetToSeq(Children(n))

\* every module owns one parameter tensor, named by its owner; its element
\* count is a distinct power of two, so a sum of counts names the set counted
RECURSIVE Pow2(_)
Pow2(k) == IF k = 0 THEN 1 ELSE 2 * Pow2(k - 1)

Numel(p) == Pow2(p - 1)

\* module.parameters(recurse)
Parameters(n, recurse) == IF recurse THEN Subtree(n) ELSE {n}

RECURSIVE SumNumel(_)
SumNumel(P) ==
    IF P = {} THEN 0
    ELSE LET p == CHOOSE x \in P : TRUE IN Numel(p) + SumNumel(P \ {p})

\* ------------------------------------------------------------------ trackers
\* A tracker object is a record.  cls is its class; count, depth, leaf and
\* shared_dict are the attributes Tracker.__init__ assigns (shared_dict is a
\* reference: <<>> is the session's dict, <<i>> the dict stored under key i
\* of it); module_name and num_params are the attributes the example
\* trackers assign, Unset until then (<<v>> holds the value v).  pre_calls,
\* post_calls and post_module are history fields: how often pre / post ran
\* on the object, and the module post was last called with (0: none).

\* Tracker.__init__
TrackerInit(cls, count, depth, leaf, sd) ==
    [cls |-> cls, count |-> count, depth |-> depth, leaf |-> leaf,
     shared_dict |-> sd, module_name |-> Unset, num_params |-> Unset,
     pre_calls |-> 0, post_calls |-> 0, post_module |-> 0]

\* Tracker.pre (no-op) and ParameterTracker.pre
TrackerPre(t, module) ==
    IF t.cls = "ParameterTracker"
    THEN [t EXCEPT !.module_name = <<kind[module]>>, !.pre_calls = @ + 1]
    ELSE [t EXCEPT !.pre_calls = @ + 1]

\* ParameterTracker.post with recurse = (not self.leaf)
ParameterPostInverted(t, module) ==
    [t EXCEPT !.num_params = <<SumNumel(Parameters(module, ~t.leaf))>>,
              !.post_calls = @ + 1, !.post_module = module]

\* ParameterTracker.post
ParameterPost(t, module) ==
    [t EXCEPT !.num_params = <<SumNumel(Parameters(module, t.leaf))>>,
              !.post_calls = @ + 1, !.post_module = module]

\* Tracker.post (no-op) and ParameterTracker.post
TrackerPost(t, module) ==
    IF t.cls = "ParameterTracker"
    THEN ParameterPost(t, module)
    ELSE [t EXCEPT !.post_calls = @ + 1, !.post_module = module]

\* dict.setdefault(key, {}) on a dict modelled as a function
SetDefault(d, key) == IF key \in DOMAIN d THEN d ELSE d @@ (key :> <<>>)

\* ---------------------------------------------------------------- factories
\* A tracker factory is either a tracker class (combo = FALSE, kinds = <<cls>>)
\* or the class TrackerList returned by tracker_list(*kinds) (combo = TRUE).
Solo(cls) == [combo |-> FALSE, kinds |-> <<cls>>]
Combo(ks) == [combo |-> TRUE, kinds |-> ks]

\* the factories a first session is run with, and the ones a second session
\* over the same computation is run with: the same again, or one of the
\* kinds of a combinator alone
Factories == {Solo("ParameterTracker"), Combo(<<"Tracker", "ParameterTracker">>)}

RerunFactories(f) == {f} \cup {Solo(f.kinds[i]) : i \in DOMAIN f.kinds}

\* the slots tracker_list creates in shared_dict: setdefault(i, {}) for
\* i = 0 .. len(tracker_factories) - 1
RECURSIVE SlotsUpTo(_, _)
SlotsUpTo(d, n) == IF n = 0 THEN d ELSE SetDefault(SlotsUpTo(d, n - 1), n - 1)

\* TrackerList.__init__ whose instances are numbered from the nesting depth + 1
TrackerListInitDepthOff(ks, count, depth, leaf, shared_dict) ==
    [tracker |->
        [cls |-> "TrackerList",
         instances |-> [i \in 1..Len(ks) |->
                            TrackerInit(ks[i], count, depth + 1, leaf, <<i - 1>>)],
         pre_calls |-> 0, post_calls |-> 0],
     shared_dict |-> SlotsUpTo(shared_dict, Len(ks))]

\* TrackerList.__init__ whose instances all get the slot of the entry's count:
\* shared_dict.setdefault(count, {})
TrackerListInitSlotPerEntry(ks, count, depth, leaf, shared_dict) ==
    [tracker |->
        [cls |-> "TrackerList",
         instances |-> [i \in 1..Len(ks) |->
                            TrackerInit(ks[i], count, depth, leaf, <<count>>)],
         pre_calls |-> 0, post_calls |-> 0],
     shared_dict |-> SetDefault(shared_dict, count)]

\* TrackerList.__init__: one instance per wrapped kind, the i-th created with
\* shared_dict.setdefault(i, {}); no Tracker.__init__ on the list itself
TrackerListInit(ks, count, depth, leaf, shared_dict) ==
    [tracker |->
        [cls |-> "TrackerList",
         instances |-> [i \in 1..Len(ks) |->
                            TrackerInit(ks[i], count, depth, leaf, <<i - 1>>)],
         pre_calls |-> 0, post_calls |-> 0],
     shared_dict |-> SlotsUpTo(shared_dict, Len(ks))]

\* tracker_factory(count, depth, leaf, shared_dict): the new tracker and the
\* session's shared dict after the constructor ran
TrackerFactory(f, count, depth, leaf, shared_dict) ==
    IF f.combo
    THEN TrackerListInit(f.kinds, count, depth, leaf, shared_dict)
    ELSE [tracker |-> TrackerInit(f.kinds[1], count, depth, leaf, <<>>),
          shared_dict |-> shared_dict]

\* tracker.pre(module, input), TrackerList.pre fanning out in order
Pre(t, module) ==
    IF t.cls = "TrackerList"
    THEN [t EXCEPT !.instances = [i \in DOMAIN @ |-> TrackerPre(@[i], module)],
                   !.pre_calls = @ + 1]
    ELSE TrackerPre(t, module)

\* tracker.post(module, input, output), TrackerList.post fanning out in order
Post(t, module) ==
    IF t.cls = "TrackerList"
    THEN [t EXCEPT !.instances = [i \in DOMAIN @ |-> TrackerPost(@[i], module)],
                   !.post_calls = @ + 1]
    ELSE TrackerPost(t, module)

\* ------------------------------------------------------------------- session
\* The closure state of one call of track(): the locals shared_dict,
\* all_trackers, tracker_stack and hooks, and what the generator has done
\* (state: "new" before the call, "active" while suspended at the yield,
\* "ended" after the finally block; propagated: the exception that left the
\* with statement).  tracker_stack holds references: the position in
\* all_trackers of the object pushed.  History fields: n_pre / n_post count
\* the tracker.pre / tracker.post calls of the hooks, entered[i] is the
\* context in which the i-th tracker was created, raised says whether a
\* forward has raised while the session was active, error is the exception
\* a hook of the session raised.
NoFactory == [combo |-> FALSE, kinds |-> <<>>]

NoSession ==
    [state |-> "new", factory |-> NoFactory, shared_dict |-> <<>>,
     all_trackers |-> <<>>, tracker_stack |-> <<>>, hooks |-> <<>>,
     propagated |-> None, n_pre |-> 0, n_post |-> 0, entered |-> <<>>,
     raised |-> FALSE, error |-> None]

\* track lines 120-123 with tracker_stack kept from the previous session
LocalsKeepStack(s, f) ==
    [NoSession EXCEPT !.state = "active", !.factory = f,
                      !.tracker_stack = IF s > 1 THEN sess[s - 1].tracker_stack
                                        ELSE <<>>]

\* track lines 120-123: fresh shared_dict, all_trackers, tracker_stack, hooks
Locals(s, f) == [NoSession EXCEPT !.state = "active", !.factory = f]

\* pre_hook with the first two arguments of the factory swapped
PreHookSwapped(S, module, leaf, frames) ==
    LET r == TrackerFactory(S.factory, Len(S.tracker_stack), Len(S.all_trackers),
                            leaf, S.shared_dict)
        ref == Len(S.all_trackers) + 1
    IN [S EXCEPT !.shared_dict = r.shared_dict,
                 !.all_trackers = Append(@, Pre(r.tracker, module)),
                 !.tracker_stack = Append(@, ref),
                 !.n_pre = @ + 1,
                 !.entered = Append(@, [node |-> module, frames |-> frames,
                                        raised |-> S.raised])]

\* register_hook.pre_hook
PreHook(S, module, leaf, frames) ==
    LET r == TrackerFactory(S.factory, Len(S.all_trackers), Len(S.tracker_stack),
                            leaf, S.shared_dict)
        ref == Len(S.all_trackers) + 1
    IN [S EXCEPT !.shared_dict = r.shared_dict,
                 !.all_trackers = Append(@, Pre(r.tracker, module)),
                 !.tracker_stack = Append(@, ref),
                 !.n_pre = @ + 1,
                 !.entered = Append(@, [node |-> module, frames |-> frames,
                                        raised |-> S.raised])]

\* hook that returns when the stack is empty
HookLenient(S, module) ==
    IF S.tracker_stack = <<>>
    THEN S
    ELSE LET ref == S.tracker_stack[Len(S.tracker_stack)]
         IN [S EXCEPT !.tracker_stack = SubSeq(@, 1, Len(@) - 1),
                      !.all_trackers[ref] = Post(@, module),
                      !.n_post = @ + 1]

\* hook that leaves the tracker on the stack: tracker_stack[-1]
HookPeek(S, module) ==
    IF S.tracker_stack = <<>>
    THEN [S EXCEPT !.error = "IndexError"]
    ELSE LET ref == S.tracker_stack[Len(S.tracker_stack)]
         IN [S EXCEPT !.all_trackers[ref] = Post(@, module),
                      !.n_post = @ + 1]

\* hook taking the oldest tracker of the stack: tracker_stack.pop(0)
HookPopFirst(S, module) ==
    IF S.tracker_stack = <<>>
    THEN [S EXCEPT !.error = "IndexError"]
    ELSE LET ref == S.tracker_stack[1]
         IN [S EXCEPT !.tracker_stack = Tail(@),
                      !.all_trackers[ref] = Post(@, module),
                      !.n_post = @ + 1]

\* register_hook.hook: list.pop() raises IndexError on an empty stack
Hook(S, module) ==
    IF S.tracker_stack = <<>>
    THEN [S EXCEPT !.error = "IndexError"]
    ELSE LET ref == S.tracker_stack[Len(S.tracker_stack)]
         IN [S EXCEPT !.tracker_stack = SubSeq(@, 1, Len(@) - 1),
                      !.all_trackers[ref] = Post(@, module),
                      !.n_post = @ + 1]

\* A world is what a call of track() reads and writes: its own closure state
\* S and the hook dicts of the modules.
\* register_hook: a handle is named by its position in the session's hooks
RegisterHook(w, s, module, leaf) ==
    LET k == Len(w.S.hooks)
    IN [S |-> [w.S EXCEPT !.hooks =
                   @ \o <<[module |-> module, which |-> "pre", id |-> k + 1],
                          [module |-> module, which |-> "post", id |-> k + 2]>>],
        pre |-> [w.pre EXCEPT ![module] =
                    Append(@, [sess |-> s, id |-> k + 1, leaf |-> leaf])],
        post |-> [w.post EXCEPT ![module] =
                    Append(@, [sess |-> s, id |-> k + 2, leaf |-> leaf])]]

\* apply_filtered that also walks into the children of a leaf_types module
RECURSIVE ApplyAll(_)
RECURSIVE ApplyAllChildren(_)
ApplyAllChildren(cs) ==
    IF cs = <<>> THEN <<>>
    ELSE (IF kind[Head(cs)] \in leaf_types
          THEN ApplyAllChildren(ChildList(Head(cs)))
               \o <<[module |-> Head(cs), leaf |-> TRUE]>>
          ELSE ApplyAll(Head(cs)))
         \o ApplyAllChildren(Tail(cs))

ApplyAll(n) ==
    ApplyAllChildren(ChildList(n)) \o <<[module |-> n, leaf |-> (ChildList(n) = <<>>)]>>

\* apply_filtered: the calls fn(module, leaf=...) it makes, in order
RECURSIVE ApplyFiltered(_)
RECURSIVE ApplyChildren(_)
ApplyChildren(cs) ==
    IF cs = <<>> THEN <<>>
    ELSE (IF kind[Head(cs)] \in leaf_types
          THEN <<[module |-> Head(cs), leaf |-> TRUE]>>
          ELSE ApplyFiltered(Head(cs)))
         \o ApplyChildren(Tail(cs))

ApplyFiltered(n) ==
    ApplyChildren(ChildList(n)) \o <<[module |-> n, leaf |-> (ChildList(n) = <<>>)]>>

RECURSIVE RegisterAll(_, _, _)
RegisterAll(w, s, regs) ==
    IF regs = <<>> THEN w
    ELSE RegisterAll(RegisterHook(w, s, Head(regs).module, Head(regs).leaf),
                     s, Tail(regs))

\* track up to the yield: the locals, then apply_filtered(net, register_hook)
Track(s, f) ==
    RegisterAll([S |-> Locals(s, f), pre |-> forward_pre_hooks,
                 post |-> forward_hooks], s, ApplyFiltered(Root))

\* remove() that empties the hook dicts of the handle's module
RemoveHandleClear(w, s, h) ==
    [w EXCEPT !.pre[h.module] = <<>>, !.post[h.module] = <<>>]

\* RemovableHandle.remove(): delete the handle from its module's hook dict
RemoveHandle(w, s, h) ==
    LET keep(hs) == SelectSeq(hs, LAMBDA x : ~(x.sess = s /\ x.id = h.id))
    IN IF h.which = "pre"
       THEN [w EXCEPT !.pre[h.module] = keep(@)]
       ELSE [w EXCEPT !.post[h.module] = keep(@)]

RECURSIVE RemoveAll(_, _, _)
RemoveAll(w, s, hs) ==
    IF hs = <<>> THEN w ELSE RemoveAll(RemoveHandle(w, s, Head(hs)), s, Tail(hs))

\* the hooks removed only when the with-body ended normally (no try/finally)
TrackExitNoFinally(w, s, e) ==
    [world |-> IF e = None THEN RemoveAll(w, s, w.S.hooks) ELSE w,
     propagated |-> e]

\* the exception swallowed by an except clause around the yield
TrackExitSuppress(w, s, e) ==
    [world |-> RemoveAll(w, s, w.S.hooks), propagated |-> None]

\* track from the yield on: try: yield ... finally: remove the hooks.  e is
\* the exception the with-body threw into the generator (None: none); the
\* finally block runs either way and raises nothing, so e leaves the
\* generator again and contextmanager.__exit__ does not suppress it.
TrackExit(w, s, e) ==
    [world |-> RemoveAll(w, s, w.S.hooks), propagated |-> e]

\* Module.__call__, first half: the forward pre hooks in registration order;
\* a hook that belongs to no session (the caller's, sess = 0) leaves the
\* sessions alone
RECURSIVE RunPreHooks(_, _, _, _)
RunPreHooks(hs, ss, module, frames) ==
    IF hs = <<>> THEN ss
    ELSE LET h == Head(hs)
         IN IF h.sess \notin Sessions
            THEN RunPreHooks(Tail(hs), ss, module, frames)
            ELSE RunPreHooks(Tail(hs),
                             [ss EXCEPT ![h.sess] = PreHook(@, module, h.leaf, frames)],
                             module, frames)

\* Module.__call__, second half: the forward hooks in registration order; a
\* hook that raises ends the call
RECURSIVE RunHooks(_, _, _)
RunHooks(hs, ss, module) ==
    IF hs = <<>> THEN [sess |-> ss, error |-> None]
    ELSE LET h == Head(hs)
         IN IF h.sess \notin Sessions
            THEN RunHooks(Tail(hs), ss, module)
            ELSE LET S == Hook(ss[h.sess], module)
                 IN IF S.error # None
                    THEN [sess |-> [ss EXCEPT ![h.sess] = S], error |-> S.error]
                    ELSE RunHooks(Tail(hs), [ss EXCEPT ![h.sess] = S], module)

\* ------------------------------------------------------- identity based set
\* heap[x] is the x-th object allocated: its id() (the address, which a later
\* object may get again once x is reclaimed) and whether it is still alive.
\* data[a] = 0: a is no key of self.data; data[a] = x: self.data[a] is a weak
\* reference created for object x.
Alive == {x \in 1..Len(heap) : heap[x].alive}

\* weakref.ref(obj)(): the referent, 0 (None) once it has been reclaimed
Deref(x) == IF heap[x].alive THEN x ELSE 0

\* __contains__ answering from the key alone
ContainsByKey(item) == data[heap[item].addr] # 0

\* _IDBasedWeakSet.__contains__
Contains(item) ==
    IF data[heap[item].addr] # 0
    THEN LET ref == Deref(data[heap[item].addr])
         IN IF ref = 0 THEN FALSE ELSE ref = item
    ELSE FALSE

\* a new object comes to life at an address no living object has
Alloc(a) ==
    /\ Len(heap) < MaxObjects
    /\ \A x \in Alive : heap[x].addr # a
    /\ heap' = Append(heap, [addr |-> a, alive |-> TRUE])
    /\ UNCHANGED <<data, added, last_error>>

\* _IDBasedWeakSet.add(item), item an object
Add(item) ==
    /\ item \in Alive
    /\ data' = [data EXCEPT ![heap[item].addr] = item]
    /\ added' = added \cup {item}
    /\ last_error' = None
    /\ UNCHANGED heap

\* add(None) that stores the key before it raises
AddNoneStores ==
    /\ last_error' = "ValueError"
    /\ data' = [a \in DOMAIN data |-> 0]
    /\ UNCHANGED <<heap, added>>

\* _IDBasedWeakSet.add(None)
AddNone ==
    /\ last_error' = "ValueError"
    /\ UNCHANGED <<heap, data, added>>

\* the last strong reference to an object goes away; the set holds none
Reclaim(x) ==
    /\ x \in Alive
    /\ heap' = [heap EXCEPT ![x].alive = FALSE]
    /\ UNCHANGED <<data, added, last_error>>

\* ------------------------------------------------------------ python values
\* What a module is called with and what it returns: a tensor (ref: the heap
\* object it is), an object that is no tensor, or a tuple, a list or a dict of
\* such values.  The items of a dict are its (key, value) pairs in order.
Tensor(x) == [type |-> "Tensor", ref |-> x]
NonTensor == [type |-> "int"]
Tuple(items) == [type |-> "tuple", items |-> items]
List(items) == [type |-> "list", items |-> items]
Dict(values) ==
    [type |-> "dict",
     items |-> [i \in 1..Len(values) |-> [key |-> i, value |-> values[i]]]]

SeqsUpTo(V, n) == UNION {[1..k -> V] : k \in 0..n}

\* the tuples, lists and dicts of at most n values of V
Containers(V, n) ==
    UNION {{Tuple(vs), List(vs), Dict(vs)} : vs \in SeqsUpTo(V, n)}

\* the elements of a sequence, as a set
Range(f) == {f[i] : i \in DOMAIN f}

\* IOPNumTracker.flat_tensors: the tensors found in obj, in order
RECURSIVE FlatTensors(_)
RECURSIVE FlatAll(_)
FlatAll(objs) ==
    IF objs = <<>> THEN <<>> ELSE FlatTensors(Head(objs)) \o FlatAll(Tail(objs))

FlatTensors(obj) ==
    IF obj.type \in {"tuple", "list"}
    THEN FlatAll(obj.items)
    ELSE IF obj.type = "dict"
    THEN FlatAll([i \in DOMAIN obj.items |-> obj.items[i].value])
    ELSE IF obj.type = "Tensor" THEN <<obj.ref>> ELSE <<>>

\* ------------------------------------------------------------- IOPNumTracker
\* _IDBasedWeakSet.__contains__ and add on the instance whose data is d
InSet(d, item) ==
    IF d[heap[item].addr] # 0
    THEN LET ref == Deref(d[heap[item].addr])
         IN IF ref = 0 THEN FALSE ELSE ref = item
    ELSE FALSE

SetAdd(d, item) == [d EXCEPT ![heap[item].addr] = item]

\* the entries maybe_init stores in a dict; 'visited' is a new _IDBasedWeakSet
NewTally ==
    [parameters_learnable |-> 0, parameters_fixed |-> 0,
     tensors_learnable |-> 0, tensors_fixed |-> 0,
     visited |-> [a \in 1..MaxAddr |-> 0]]

\* A dict pair st = [shared_dict, local_dict] is what the methods of one
\* tracker read and write; an empty dict and the class attribute
\* local_dict = None are both Unset.
\* IOPNumTracker.maybe_init
MaybeInit(st) ==
    [shared_dict |-> IF DOMAIN st.shared_dict = {} THEN NewTally ELSE st.shared_dict,
     local_dict |-> IF DOMAIN st.local_dict = {} THEN NewTally ELSE st.local_dict]

\* IOPNumTracker.get_size: tensor.numel()
GetSize(tensor) == Numel(tensor)

\* one tier of maybe_add: count the tensor unless the tier has visited it
Count(d, tensor, learnable_key, fixed_key) ==
    IF InSet(d.visited, tensor) THEN d
    ELSE LET key == IF requires_grad[tensor] THEN learnable_key ELSE fixed_key
         IN [d EXCEPT !.visited = SetAdd(@, tensor),
                      ![key] = @ + GetSize(tensor)]

\* maybe_add whose shared tier counts without looking at 'visited'
MaybeAddTwice(st, tensor, learnable_key, fixed_key) ==
    LET key == IF requires_grad[tensor] THEN learnable_key ELSE fixed_key
    IN [shared_dict |-> [st.shared_dict EXCEPT ![key] = @ + GetSize(tensor)],
        local_dict |-> Count(st.local_dict, tensor, learnable_key, fixed_key)]

\* IOPNumTracker.maybe_add
MaybeAdd(st, tensor, learnable_key, fixed_key) ==
    [shared_dict |-> Count(st.shared_dict, tensor, learnable_key, fixed_key),
     local_dict |-> Count(st.local_dict, tensor, learnable_key, fixed_key)]

\* for t in tensors: self.maybe_add(t, learnable_key, fixed_key)
RECURSIVE AddEach(_, _, _, _)
AddEach(st, tensors, learnable_key, fixed_key) ==
    IF tensors = <<>> THEN st
    ELSE AddEach(MaybeAdd(st, Head(tensors), learnable_key, fixed_key),
                 Tail(tensors), learnable_key, fixed_key)

\* IOPNumTracker.pre; parameters is module.parameters(recurse=self.leaf)
IOPNumPre(st, parameters, input) ==
    AddEach(AddEach(MaybeInit(st), parameters,
                    "parameters_learnable", "parameters_fixed"),
            FlatTensors(input), "tensors_learnable", "tensors_fixed")

\* IOPNumTracker.post
IOPNumPost(st, output) ==
    AddEach(st, FlatTensors(output), "tensors_learnable", "tensors_fixed")

\* The session: shared_dict is the dict every tracker gets, all_trackers the
\* result list.  A tracker is its local_dict; history fields: observed, the
\* tensors its pre and post were given, and post_calls.
NoIOP == [shared_dict |-> Unset, all_trackers |-> <<>>, observed |-> {}]

\* the values over the living tensors: a tensor, a non-tensor, or a tuple, a
\* list or a dict of at most MaxLen of them
IOValues ==
    LET leaves == {Tensor(x) : x \in Alive} \cup {NonTensor}
    IN leaves \cup Containers(leaves, MaxLen)

\* the parameter lists of a module: without repetition, at most MaxParams long
ParameterLists ==
    {ps \in SeqsUpTo(Alive, MaxParams) : \A i, j \in DOMAIN ps : i # j => ps[i] # ps[j]}

\* a tensor is created, with or without requires_grad
NewTensor(a, g) ==
    /\ Alloc(a)
    /\ requires_grad' = Append(requires_grad, g)
    /\ UNCHANGED <<iop, netVars, trackVars, shapeVars>>

\* the last reference to a tensor goes away
DelTensor(x) ==
    /\ Reclaim(x)
    /\ UNCHANGED <<iopVars, netVars, trackVars, shapeVars>>

\* pre_hook with tracker_factory = IOPNumTracker: a new tracker, its pre
\* called with the module and the argument tuple
IOPPreHook(parameters, args) ==
    /\ Len(iop.all_trackers) < MaxTrackers
    /\ LET st == IOPNumPre([shared_dict |-> iop.shared_dict, local_dict |-> Unset],
                           parameters, Tuple(<<args>>))
           seen == Range(parameters) \cup Range(FlatTensors(args))
       IN iop' = [shared_dict |-> st.shared_dict,
                  all_trackers |-> Append(iop.all_trackers,
                                      [local_dict |-> st.local_dict,
                                       observed |-> seen, post_calls |-> 0]),
                  observed |-> iop.observed \cup seen]
    /\ UNCHANGED <<requires_grad, setVars, netVars, trackVars, shapeVars>>

\* hook: post called on a tracker that has had none yet
IOPHook(i, output) ==
    /\ i \in 1..Len(iop.all_trackers)
    /\ iop.all_trackers[i].post_calls = 0
    /\ LET t == iop.all_trackers[i]
           st == IOPNumPost([shared_dict |-> iop.shared_dict,
                             local_dict |-> t.local_dict], output)
           seen == Range(FlatTensors(output))
       IN iop' = [shared_dict |-> st.shared_dict,
                  all_trackers |-> [iop.all_trackers EXCEPT ![i] =
                                      [local_dict |-> st.local_dict,
                                       observed |-> t.observed \cup seen,
                                       post_calls |-> 1]],
                  observed |-> iop.observed \cup seen]
    /\ UNCHANGED <<requires_grad, setVars, netVars, trackVars, shapeVars>>

\* --------------------------------------------------------------- ShapeTracker
\* an object with a shape attribute (a tensor of that shape)
Shaped(shape) == [type |-> "Tensor", shape |-> shape]

PyNone == [type |-> "NoneType"]

\* bool(v): None, an empty tuple, an empty list and an empty dict are false
Truthy(v) ==
    /\ v # PyNone
    /\ v.type \in {"tuple", "list", "dict"} => v.items # <<>>

\* ShapeTracker.get_shape
RECURSIVE GetShape(_)
GetShape(obj) ==
    IF obj.type \in {"tuple", "list"}
    THEN [type |-> obj.type,
          items |-> SelectSeq([i \in DOMAIN obj.items |-> GetShape(obj.items[i])],
                              Truthy)]
    ELSE IF obj.type = "dict"
    THEN [type |-> "dict",
          items |-> SelectSeq([i \in DOMAIN obj.items |->
                                  [key |-> obj.items[i].key,
                                   value |-> GetShape(obj.items[i].value)]],
                              LAMBDA it : it.value # PyNone)]
    ELSE IF "shape" \in DOMAIN obj THEN List(obj.shape) ELSE PyNone

\* the values a module is called with or returns: a scalar tensor, a vector,
\* an object without a shape, or a tuple, a list or a dict of at most MaxLen
\* of these
ShapeValues ==
    LET leaves == {Shaped(<<>>), Shaped(<<MaxLen>>), NonTensor}
    IN leaves \cup Containers(leaves, MaxLen)

\* ShapeTracker.pre
ShapePre ==
    /\ shape_tracker.input_shape = Unset
    /\ shape_tracker' = [shape_tracker EXCEPT
                            !.input_shape = <<GetShape(shape_tracker.input)>>]
    /\ UNCHANGED <<netVars, setVars, trackVars, iopVars>>

\* ShapeTracker.post
ShapePost ==
    /\ shape_tracker.input_shape # Unset /\ shape_tracker.output_shape = Unset
    /\ shape_tracker' = [shape_tracker EXCEPT
                            !.output_shape = <<GetShape(shape_tracker.output)>>]
    /\ UNCHANGED <<netVars, setVars, trackVars, iopVars>>

\* ------------------------------------------------------------ the computation
Top == pyStack[Len(pyStack)]

Recording == record /\ cur = 1
Replaying == record /\ cur = 2

\* the sessions of a run: one, or two when the second repeats the first
LastSession == IF record THEN 2 ELSE 1

CallBudget == IF record THEN MaxReplayCalls ELSE MaxCalls

Event(op, n, e) == [op |-> op, n |-> n, e |-> e]

\* an event of the computation in the with-body: written down in session 1,
\* and the next one written down in session 2, when record
Step(ev) ==
    /\ Replaying => (pos <= Len(trace) /\ trace[pos] = ev)
    /\ trace' = IF Recording THEN Append(trace, ev) ELSE trace
    /\ pos' = IF Replaying THEN pos + 1 ELSE pos

\* with track(net, f) as trackers: the generator runs up to its yield
Begin(s, f) ==
    /\ f \in (IF s = 1 THEN Factories ELSE RerunFactories(sess[1].factory))
    /\ cur = 0 /\ pyStack = <<>> /\ exc = None
    /\ sess[s].state = "new"
    /\ s <= LastSession
    /\ IF s = 1 THEN TRUE ELSE sess[s - 1].state = "ended"
    /\ LET w == Track(s, f)
       IN /\ sess' = [sess EXCEPT ![s] = w.S]
          /\ forward_pre_hooks' = w.pre
          /\ forward_hooks' = w.post
    /\ cur' = s
    /\ calls' = 0
    /\ pos' = 1
    /\ UNCHANGED <<netVars, setVars, iopVars, shapeVars, pyStack, exc, record, trace>>

\* track(net, f).__enter__() called while a forward of the net is running:
\* the session is open when that forward returns
BeginInForward(s, f) ==
    /\ f \in Factories
    /\ cur = 0 /\ pyStack # <<>> /\ exc = None
    /\ sess[s].state = "new"
    /\ s <= LastSession
    /\ LET w == Track(s, f)
       IN /\ sess' = [sess EXCEPT ![s] = w.S]
          /\ forward_pre_hooks' = w.pre
          /\ forward_hooks' = w.post
    /\ cur' = s
    /\ calls' = 0
    /\ pos' = 1
    /\ UNCHANGED <<netVars, setVars, iopVars, shapeVars, pyStack, exc, record, trace>>

\* module(input): by the with-body (any module of the net), by the caller
\* after the sessions (the net), or by the forward being executed (one of
\* its children)
Call(n) ==
    /\ exc = None
    /\ IF pyStack # <<>> THEN n \in Children(Top) ELSE cur # 0 \/ n = Root
    /\ IF cur # 0 THEN calls < CallBudget ELSE sess[LastSession].state = "ended"
    /\ Step(Event("call", n, None))
    /\ sess' = RunPreHooks(forward_pre_hooks[n], sess, n, pyStack)
    /\ pyStack' = Append(pyStack, n)
    /\ calls' = IF cur # 0 THEN calls + 1 ELSE calls
    /\ UNCHANGED <<netVars, setVars, iopVars, shapeVars, forward_pre_hooks, forward_hooks, cur, exc,
                   record>>

\* the forward being executed returns: its module's forward hooks run
Return ==
    /\ exc = None /\ pyStack # <<>>
    /\ Step(Event("return", 0, None))
    /\ LET r == RunHooks(forward_hooks[Top], sess, Top)
       IN /\ sess' = r.sess
          /\ exc' = r.error
          /\ pyStack' = IF r.error = None
                        THEN SubSeq(pyStack, 1, Len(pyStack) - 1) ELSE <<>>
    /\ UNCHANGED <<netVars, setVars, iopVars, shapeVars, forward_pre_hooks, forward_hooks, cur, calls,
                   record>>

\* the forward being executed raises, and the forward k frames up catches
\* the exception: the frames above it are left without their forward hooks
RaiseCaught(k) ==
    /\ cur # 0 /\ exc = None
    /\ k \in 1..(Len(pyStack) - 1)
    /\ Step(Event("caught", k, None))
    /\ pyStack' = SubSeq(pyStack, 1, k)
    /\ sess' = [sess EXCEPT ![cur].raised = TRUE]
    /\ UNCHANGED <<netVars, setVars, iopVars, shapeVars, forward_pre_hooks, forward_hooks, cur, exc,
                   calls, record>>

\* the forward being executed raises e and no forward catches it: it arrives
\* in the with-body
RaiseToBody(e) ==
    /\ cur # 0 /\ exc = None /\ pyStack # <<>>
    /\ Step(Event("raise", 0, e))
    /\ pyStack' = <<>>
    /\ exc' = e
    /\ sess' = [sess EXCEPT ![cur].raised = TRUE]
    /\ UNCHANGED <<netVars, setVars, iopVars, shapeVars, forward_pre_hooks, forward_hooks, cur, calls,
                   record>>

\* a try/except inside the with-body catches the pending exception
BodyCatch ==
    /\ exc # None
    /\ Step(Event("catch", 0, None))
    /\ exc' = None
    /\ UNCHANGED <<netVars, setVars, iopVars, shapeVars, forward_pre_hooks, forward_hooks, sess, cur,
                   pyStack, calls, record>>

\* the with statement is left, normally or by the pending exception
End(s) ==
    /\ cur = s /\ pyStack = <<>>
    /\ Replaying => pos = Len(trace) + 1
    /\ LET r == TrackExit([S |-> sess[s], pre |-> forward_pre_hooks,
                           post |-> forward_hooks], s, exc)
       IN /\ sess' = [sess EXCEPT ![s] = [r.world.S EXCEPT
                                             !.state = "ended",
                                             !.propagated = r.propagated]]
          /\ forward_pre_hooks' = r.world.pre
          /\ forward_hooks' = r.world.post
    /\ cur' = 0
    /\ exc' = None
    /\ UNCHANGED <<netVars, setVars, iopVars, shapeVars, pyStack, calls, record, trace, pos>>

\* --------------------------------------------------------------- specifications
\* the nets: a single module, a module with one child, a module with two
\* children, a chain of three
Trees == {<<0>>, <<0, 1>>, <<0, 1, 1>>, <<0, 1, 2>>}

LeafTypeChoices == {{}, {"Sequential"}}

InitSet ==
    /\ heap = <<>>
    /\ data = [a \in 1..MaxAddr |-> 0]
    /\ added = {}
    /\ last_error = None

InitTrack ==
    /\ forward_pre_hooks = [m \in Nodes |-> <<>>]
    /\ forward_hooks = [m \in Nodes |-> <<>>]
    /\ sess = [s \in Sessions |-> NoSession]
    /\ cur = 0
    /\ pyStack = <<>>
    /\ exc = None
    /\ calls = 0
    /\ trace = <<>>
    /\ pos = 1

InitIOP ==
    /\ requires_grad = <<>>
    /\ iop = NoIOP

\* a ShapeTracker on a module called with one argument
InitShape ==
    \E arg, out \in ShapeValues :
        shape_tracker = [input |-> Tuple(<<arg>>), output |-> out,
                         input_shape |-> Unset, output_shape |-> Unset]

\* no ShapeTracker in use
NoShape ==
    shape_tracker = [input |-> Tuple(<<>>), output |-> PyNone,
                     input_shape |-> Unset, output_shape |-> Unset]

InitNet ==
    /\ parent \in Trees
    /\ kind \in [DOMAIN parent -> ModuleKinds]
    /\ leaf_types \in LeafTypeChoices

Init == InitNet /\ InitTrack /\ InitSet /\ InitIOP /\ NoShape /\ record = FALSE

Next ==
    \/ \E s \in Sessions, f \in Factories \cup {Solo(c) : c \in TrackerKinds} :
           Begin(s, f)
    \/ \E n \in Nodes : Call(n)
    \/ Return
    \/ \E k \in 1..MaxCalls : RaiseCaught(k)
    \/ \E e \in Exceptions : RaiseToBody(e)
    \/ BodyCatch
    \/ \E s \in Sessions : End(s)

Spec == Init /\ [][Next]_vars

\* two sessions over the same net, the second repeating the computation of
\* the first
InitReplay == InitNet /\ InitTrack /\ InitSet /\ InitIOP /\ NoShape /\ record = TRUE

SpecReplay == InitReplay /\ [][Next]_vars

\* the identity based weak set on its own
InitWeakSet ==
    /\ parent = <<0>> /\ kind = <<"Linear">> /\ leaf_types = {}
    /\ InitTrack /\ InitSet /\ InitIOP /\ NoShape /\ record = FALSE

NextWeakSet ==
    \/ \E a \in 1..MaxAddr : Alloc(a) /\ UNCHANGED <<netVars, trackVars, iopVars, shapeVars>>
    \/ \E x \in 1..MaxObjects : Add(x) /\ UNCHANGED <<netVars, trackVars, iopVars, shapeVars>>
    \/ AddNone /\ UNCHANGED <<netVars, trackVars, iopVars, shapeVars>>
    \/ \E x \in 1..MaxObjects : Reclaim(x) /\ UNCHANGED <<netVars, trackVars, iopVars, shapeVars>>

SpecWeakSet == InitWeakSet /\ [][NextWeakSet]_vars

\* a session run with IOPNumTracker, the tensors coming and going
NextIOP ==
    \/ \E a \in 1..MaxAddr, g \in BOOLEAN : NewTensor(a, g)
    \/ \E x \in 1..MaxObjects : DelTensor(x)
    \/ \E ps \in ParameterLists, args \in IOValues : IOPPreHook(ps, args)
    \/ \E i \in 1..MaxTrackers, output \in IOValues : IOPHook(i, output)

SpecIOP == InitWeakSet /\ [][NextIOP]_vars

\* a net of two modules, some of which carry a forward pre hook and a forward
\* hook the caller registered before the session
CallerHook == [sess |-> 0, id |-> 1, leaf |-> FALSE]

InitCaller ==
    /\ parent = <<0, 1>>
    /\ kind \in [DOMAIN parent -> ModuleKinds]
    /\ leaf_types \in LeafTypeChoices
    /\ forward_pre_hooks \in [Nodes -> {<<>>, <<CallerHook>>}]
    /\ forward_hooks = forward_pre_hooks
    /\ sess = [s \in Sessions |-> NoSession]
    /\ cur = 0 /\ pyStack = <<>> /\ exc = None /\ calls = 0
    /\ trace = <<>> /\ pos = 1
    /\ InitSet /\ InitIOP /\ NoShape /\ record = FALSE

SpecCaller == InitCaller /\ [][Next]_vars

\* the caller is executing the net, outside of any session, and a session is
\* opened from inside that execution
InitInForward ==
    /\ parent \in {<<0>>, <<0, 1>>}
    /\ kind \in [DOMAIN parent -> ModuleKinds]
    /\ leaf_types \in LeafTypeChoices
    /\ forward_pre_hooks = [m \in Nodes |-> <<>>]
    /\ forward_hooks = [m \in Nodes |-> <<>>]
    /\ sess = [s \in Sessions |-> NoSession]
    /\ cur = 0 /\ pyStack = <<Root>> /\ exc = None /\ calls = 0
    /\ trace = <<>> /\ pos = 1
    /\ InitSet /\ InitIOP /\ NoShape /\ record = FALSE

NextInForward ==
    \/ \E s \in Sessions, f \in Factories : BeginInForward(s, f)
    \/ \E n \in Nodes : Call(n)
    \/ Return
    \/ \E k \in 1..MaxCalls : RaiseCaught(k)
    \/ \E e \in Exceptions : RaiseToBody(e)
    \/ BodyCatch
    \/ \E s \in Sessions : End(s)

SpecInForward == InitInForward /\ [][NextInForward]_vars

\* a ShapeTracker on one execution of a module
InitShapes ==
    /\ parent = <<0>> /\ kind = <<"Linear">> /\ leaf_types = {}
    /\ InitTrack /\ InitSet /\ InitIOP /\ InitShape /\ record = FALSE

NextShapes == ShapePre \/ ShapePost

SpecShapes == InitShapes /\ [][NextShapes]_vars

\* ------------------------------------------------------------------- claims
\* the tracker objects a result-list entry stands for: the wrapped instances
\* of a TrackerList, the tracker itself otherwise
Instances(t) == IF t.cls = "TrackerList" THEN t.instances ELSE <<t>>

\* the modules session s attached interceptors to
Instrumented(s) == {sess[s].hooks[i].module : i \in 1..Len(sess[s].hooks)}

Started == {s \in Sessions : sess[s].state # "new"}

\* the with-body of session s is between two computations, or s has ended
AtRest(s) == cur = s => (pyStack = <<>> /\ exc = None)

\* C1: after computations that each ran to completion inside a session (no
\* forward has raised, none is running), the number of pre calls, the number
\* of post calls and the length of the result list are equal, and the
\* tracker at position i of the result list has count i (0-based).
C1_PrePostCount ==
    \A s \in Started :
        LET S == sess[s]
        IN (~S.raised /\ AtRest(s)) =>
              /\ S.n_pre = Len(S.all_trackers)
              /\ S.n_post = Len(S.all_trackers)
              /\ \A i \in 1..Len(S.all_trackers) :
                    \A j \in DOMAIN Instances(S.all_trackers[i]) :
                        Instances(S.all_trackers[i])[j].count = i - 1

\* three node executions, one of them nested, have completed in a session
C1_Witness ==
    \E s \in Started :
        /\ ~sess[s].raised /\ cur = s /\ pyStack = <<>>
        /\ sess[s].n_post = 3
        /\ \E i \in 1..Len(sess[s].all_trackers) :
              Instances(sess[s].all_trackers[i])[1].depth > 0

\* the instrumented strict ancestors of a module
InstrumentedAncestors(s, n) == Ancestors(n) \cap Instrumented(s)

CleanEntry(s, i) ==
    LET e == sess[s].entered[i]
    IN /\ ~e.raised
       /\ IF e.frames = <<>> THEN e.node = Root ELSE e.frames[1] = Root

C3_LeafFlag ==
    \A s \in Started :
        \A i \in 1..Len(sess[s].all_trackers) :
            \A j \in DOMAIN Instances(sess[s].all_trackers[i]) :
                Instances(sess[s].all_trackers[i])[j].leaf =
                    (\/ Children(sess[s].entered[i].node) = {}
                     \/ kind[sess[s].entered[i].node] \in leaf_types)

\* no interceptor of session s is attached to any module
Detached(s) ==
    \A m \in Nodes :
        /\ \A i \in 1..Len(forward_pre_hooks[m]) : forward_pre_hooks[m][i].sess # s
        /\ \A i \in 1..Len(forward_hooks[m]) : forward_hooks[m][i].sess # s

\* C4: once a session has ended, normally or by an exception, none of its
\* interceptors is attached to any module, and whatever is executed then
\* creates no tracker, calls no pre / post and leaves its result list as it is.
C4_DetachedAfterEnd ==
    [][\A s \in Sessions :
          sess[s].state = "ended" =>
              /\ Detached(s)
              /\ sess'[s].all_trackers = sess[s].all_trackers
              /\ sess'[s].n_pre = sess[s].n_pre
              /\ sess'[s].n_post = sess[s].n_post]_vars

\* a session that recorded trackers was ended by an exception, and a module
\* it had instrumented is being executed afterwards
C4_Witness ==
    \E s \in Sessions :
        /\ sess[s].state = "ended" /\ sess[s].propagated # None
        /\ sess[s].all_trackers # <<>>
        /\ cur = 0 /\ pyStack # <<>> /\ Top \in Instrumented(s)

\* C5: the exception that ends the with-body (None: none) is the one that
\* leaves the with statement, and ending the session leaves the result list
\* as it was.
C5_ExceptionPropagates ==
    [][\A s \in Sessions :
          (sess[s].state = "active" /\ sess'[s].state = "ended") =>
              /\ sess'[s].propagated = exc
              /\ sess'[s].all_trackers = sess[s].all_trackers]_vars

\* a session was ended by an exception after a tracker had been recorded
C5_Witness ==
    \E s \in Sessions :
        /\ sess[s].state = "ended" /\ sess[s].propagated \in Exceptions
        /\ sess[s].all_trackers # <<>>

\* C6: for a living object x, contains(x) is true exactly if an object with
\* x's identity was added and that object is still alive.
C6_ContainsIffAddedAlive ==
    \A x \in Alive :
        Contains(x) <=> (\E y \in added : heap[y].addr = heap[x].addr /\ heap[y].alive)

\* an added object was reclaimed, and a new object now lives at its address;
\* another added object is still alive
C6_Witness ==
    /\ \E x \in Alive : \E y \in added :
          y # x /\ heap[y].addr = heap[x].addr /\ data[heap[x].addr] = y
    /\ \E x \in Alive : x \in added

\* what a tracker object holds, its reference to the shared dict aside
View(t) ==
    [cls |-> t.cls, count |-> t.count, depth |-> t.depth, leaf |-> t.leaf,
     module_name |-> t.module_name, num_params |-> t.num_params,
     pre_calls |-> t.pre_calls, post_calls |-> t.post_calls,
     post_module |-> t.post_module]

\* session 2 has repeated the computation of session 1 and has ended
Repeated == record /\ sess[2].state = "ended"

\* C7: when session 1 ran with a combinator and session 2 repeated its
\* computation with the i-th kind alone, the i-th instances of the entries of
\* result list 1 equal, position by position, the entries of result list 2.
C7_FanOut ==
    (Repeated /\ sess[1].factory.combo /\ ~sess[2].factory.combo) =>
        \A i \in DOMAIN sess[1].factory.kinds :
            sess[1].factory.kinds[i] = sess[2].factory.kinds[1] =>
                /\ Len(sess[1].all_trackers) = Len(sess[2].all_trackers)
                /\ \A j \in 1..Len(sess[1].all_trackers) :
                      View(sess[1].all_trackers[j].instances[i])
                          = View(sess[2].all_trackers[j])

\* a computation with a nested and a completed execution was traced with the
\* combinator and then with ParameterTracker alone
C7_Witness ==
    /\ Repeated /\ sess[1].factory.combo
    /\ sess[2].factory = Solo("ParameterTracker")
    /\ \E j \in 1..Len(sess[2].all_trackers) :
          /\ sess[2].all_trackers[j].depth = 1
          /\ sess[2].all_trackers[j].num_params # Unset

\* the ParameterTracker objects of session s, in result-list order
ParameterTrackers(s) ==
    [i \in 1..Len(sess[s].all_trackers) |->
        LET t == sess[s].all_trackers[i]
        IN IF t.cls = "TrackerList"
           THEN t.instances[CHOOSE k \in DOMAIN t.instances :
                                t.instances[k].cls = "ParameterTracker"]
           ELSE t]

\* every instrumented module has been executed exactly once in session s,
\* and every execution has completed
EachOnce(s) ==
    /\ AtRest(s)
    /\ Len(sess[s].all_trackers) = Cardinality(Instrumented(s))
    /\ {sess[s].entered[i].node : i \in 1..Len(sess[s].entered)} = Instrumented(s)
    /\ \A i \in 1..Len(sess[s].all_trackers) :
          ParameterTrackers(s)[i].num_params # Unset

RECURSIVE SumParams(_)
SumParams(ts) ==
    IF ts = <<>> THEN 0 ELSE Head(ts).num_params[1] + SumParams(Tail(ts))

\* C8: when every instrumented module has been executed exactly once, the
\* parameter counts summed over the result list are the number of parameter
\* elements of the whole net, whatever leaf_types is.
C8_ParameterSum ==
    \A s \in Started :
        EachOnce(s) => SumParams(ParameterTrackers(s)) = SumNumel(Nodes)

\* the chain of three with its middle module a leaf_types module: the third
\* module carries no interceptor, and both instrumented modules have run once
C8_Witness ==
    \E s \in Started :
        /\ EachOnce(s)
        /\ parent = <<0, 1, 2>> /\ kind[2] \in leaf_types
        /\ Len(sess[s].all_trackers) = 2

\* C9 as stated: a tracker whose leaf flag is true has counted only the
\* parameters of the module itself, one whose leaf flag is false those of the
\* module and of all nested sub-modules.
C9_LeafCountsOwn ==
    \A s \in Started :
        \A i \in 1..Len(sess[s].all_trackers) :
            LET t == ParameterTrackers(s)[i]
            IN t.num_params # Unset =>
                  t.num_params[1] = IF t.leaf THEN Numel(t.post_module)
                                    ELSE SumNumel(Subtree(t.post_module))

\* C9 amended: a tracker whose leaf flag is true has counted the parameters
\* of the module and of all nested sub-modules, one whose leaf flag is false
\* only the parameters of the module itself.
C9_LeafCountsSubtree ==
    \A s \in Started :
        \A i \in 1..Len(sess[s].all_trackers) :
            LET t == ParameterTrackers(s)[i]
            IN t.num_params # Unset =>
                  t.num_params[1] = IF t.leaf THEN SumNumel(Subtree(t.post_module))
                                    ELSE Numel(t.post_module)

\* a leaf tracker has counted a module with children, and a tracker that is
\* no leaf has counted its module
C9_Witness ==
    \E s \in Started :
        /\ \E i \in 1..Len(sess[s].all_trackers) :
              LET t == ParameterTrackers(s)[i]
              IN t.num_params # Unset /\ t.leaf /\ Children(t.post_module) # {}
        /\ \E i \in 1..Len(sess[s].all_trackers) :
              LET t == ParameterTrackers(s)[i]
              IN t.num_params # Unset /\ ~t.leaf

\* C10: when session 2 repeated the computation of session 1 with the same
\* factory, the two result lists and the two shared dicts are equal.
C10_SameResults ==
    (Repeated /\ sess[2].factory = sess[1].factory) =>
        /\ sess[2].all_trackers = sess[1].all_trackers
        /\ sess[2].shared_dict = sess[1].shared_dict

\* the repeated computation left a tracker on the call stack of session 1
\* (a forward raised) and entered a module after that
C10_Witness ==
    /\ Repeated /\ sess[2].factory = sess[1].factory
    /\ sess[1].raised
    /\ \E j \in 1..Len(sess[2].all_trackers) : sess[2].entered[j].raised

\* the forward frames below the one being executed
Below == SubSeq(pyStack, 1, Len(pyStack) - 1)

\* the trackers session s created at entries of the frame being executed:
\* the entries of module Top made from the frames below it
EntriesOfTop(s) ==
    {i \in 1..Len(sess[s].all_trackers) :
        sess[s].entered[i].node = Top /\ sess[s].entered[i].frames = Below}

\* the tracker session s created at the entry of the frame being executed
MatchingEntry(s) == CHOOSE i \in EntriesOfTop(s) : \A k \in EntriesOfTop(s) : k <= i

\* every tracker object of session s has had pre called once and post at
\* most once
PreOncePostAtMostOnce(s) ==
    \A i \in 1..Len(sess[s].all_trackers) :
        \A j \in DOMAIN Instances(sess[s].all_trackers[i]) :
            LET t == Instances(sess[s].all_trackers[i])[j]
            IN t.pre_calls = 1 /\ t.post_calls \in {0, 1}

\* the step called post, on the tracker session s created at the entry of
\* the frame that is being left and on no other, with the module of that frame
PostOnMatchingEntry(s) ==
    /\ EntriesOfTop(s) # {}
    /\ Len(sess'[s].all_trackers) = Len(sess[s].all_trackers)
    /\ \A k \in 1..Len(sess[s].all_trackers) :
          IF k = MatchingEntry(s)
          THEN \A j \in DOMAIN Instances(sess[s].all_trackers[k]) :
                  /\ Instances(sess[s].all_trackers[k])[j].post_calls = 0
                  /\ Instances(sess'[s].all_trackers[k])[j].post_calls = 1
                  /\ Instances(sess'[s].all_trackers[k])[j].post_module = Top
          ELSE sess'[s].all_trackers[k] = sess[s].all_trackers[k]

HooksOf(s, hs) == Len(SelectSeq(hs, LAMBDA h : h.sess = s))

\* module n carries exactly k entry and k exit interceptors of session s
Carries(s, n, k) ==
    HooksOf(s, forward_pre_hooks[n]) = k /\ HooksOf(s, forward_hooks[n]) = k

\* a strict ancestor of n, the root aside, is of a kind in leaf_types
BelowLeafType(n) == \E a \in Ancestors(n) \ {Root} : kind[a] \in leaf_types

\* no strict ancestor of n is of a kind in leaf_types
NoLeafTypeAbove(n) == \A a \in Ancestors(n) : kind[a] \notin leaf_types

\* the step enters a forward frame while session s is active
Enters(s) ==
    /\ sess[s].state = "active" /\ sess'[s].state = "active"
    /\ Len(pyStack') = Len(pyStack) + 1

\* the trackers the step added to the result list of session s
Added(s) == Len(sess'[s].all_trackers) - Len(sess[s].all_trackers)

\* C12 as stated: while a session is active every node of the tree carries
\* exactly one entry and one exit interceptor of it, and every execution of a
\* node adds a tracker to the result list.
C12_EveryNodeWrapped ==
    [][\A s \in Sessions :
          /\ sess'[s].state = "active" => (\A n \in Nodes : Carries(s, n, 1))'
          /\ Enters(s) => Added(s) = 1]_vars

\* C12 amended: while a session is active, a node none of whose strict
\* ancestors is of a kind in leaf_types carries exactly one entry and one
\* exit interceptor, and executing it adds a tracker to the result list; a
\* node below a node (other than the root) whose kind is in leaf_types
\* carries none, and executing it adds no tracker.
C12_WrappedUnlessBelowLeafType ==
    [][\A s \in Sessions :
          /\ sess'[s].state = "active" =>
                (\A n \in Nodes :
                    /\ NoLeafTypeAbove(n) => Carries(s, n, 1)
                    /\ BelowLeafType(n) => Carries(s, n, 0))'
          /\ Enters(s) =>
                /\ NoLeafTypeAbove(Top') => Added(s) = 1
                /\ BelowLeafType(Top') => Added(s) = 0]_vars

\* a node below a leaf_types node is being executed inside the execution of
\* its two ancestors, which have a tracker each
C12_Witness ==
    \E s \in Started :
        /\ cur = s /\ pyStack = <<1, 2, 3>> /\ BelowLeafType(3)
        /\ Len(sess[s].all_trackers) = 2

\* the total and the requires-gradient part of a tally
Total(d) ==
    d.parameters_learnable + d.parameters_fixed + d.tensors_learnable + d.tensors_fixed

Learnable(d) == d.parameters_learnable + d.tensors_learnable

\* the tally d counts every tensor of the set once, in the bucket of its flag
CountsOnce(d, tensors) ==
    /\ Total(d) = SumNumel(tensors)
    /\ Learnable(d) = SumNumel({x \in tensors : requires_grad[x]})

RECURSIVE SumTotals(_)
SumTotals(ts) ==
    IF ts = <<>> THEN 0 ELSE Total(Head(ts).local_dict) + SumTotals(Tail(ts))

\* C13: once a tracker exists, the shared tally counts every distinct tensor
\* any tracker of the session was given exactly once, in the bucket of its
\* requires_grad flag; the local tally of a tracker does so for the tensors
\* that tracker was given; the shared total is at most the sum of the local
\* totals.
C13_TalliesCountOnce ==
    iop.all_trackers # <<>> =>
        /\ CountsOnce(iop.shared_dict, iop.observed)
        /\ \A i \in 1..Len(iop.all_trackers) :
              CountsOnce(iop.all_trackers[i].local_dict, iop.all_trackers[i].observed)
        /\ Total(iop.shared_dict) <= SumTotals(iop.all_trackers)

\* two trackers were given a common tensor, and two tensors that lived at the
\* same address one after the other have been counted, one of each flag
C13_Witness ==
    /\ Len(iop.all_trackers) = 2
    /\ iop.all_trackers[1].observed \cap iop.all_trackers[2].observed # {}
    /\ \E x, y \in iop.observed :
          /\ x # y /\ heap[x].addr = heap[y].addr
          /\ requires_grad[x] /\ ~requires_grad[y]
    /\ Total(iop.shared_dict) < SumTotals(iop.all_trackers)

IsContainer(obj) == obj.type \in {"tuple", "list", "dict"}

\* obj is neither a sequence, a mapping nor an object with a shape
NoShapeLeaf(obj) == ~IsContainer(obj) /\ "shape" \notin DOMAIN obj

\* result is what the claim says obj resolves to, given what the elements of
\* obj resolve to: the shapes of the elements in order, those and only those
\* left out that are "no shape"
DropsOnlyNoShape(obj, result) ==
    IF obj.type \in {"tuple", "list"}
    THEN /\ result.type = obj.type
         /\ result.items =
                SelectSeq([i \in DOMAIN obj.items |-> GetShape(obj.items[i])],
                          LAMBDA v : v # PyNone)
         /\ \A i \in DOMAIN obj.items :
                GetShape(obj.items[i]) = PyNone <=> NoShapeLeaf(obj.items[i])
    ELSE IF obj.type = "dict"
    THEN /\ result.type = "dict"
         /\ result.items =
                SelectSeq([i \in DOMAIN obj.items |->
                              [key |-> obj.items[i].key,
                               value |-> GetShape(obj.items[i].value)]],
                          LAMBDA it : it.value # PyNone)
         /\ \A i \in DOMAIN obj.items :
                GetShape(obj.items[i].value) = PyNone <=> NoShapeLeaf(obj.items[i].value)
    ELSE NoShapeLeaf(obj) <=> result = PyNone

\* C14 as stated: the input shape and the output shape a ShapeTracker
\* records hold, for a sequence, the shapes of all elements but the ones
\* that are "no shape", in order and in a sequence of the same kind; for a
\* mapping, all keys but the ones whose value is "no shape"; an object
\* without a shape resolves to "no shape".
C14_DropsOnlyNoShape ==
    /\ shape_tracker.input_shape # Unset =>
          DropsOnlyNoShape(shape_tracker.input, shape_tracker.input_shape[1])
    /\ shape_tracker.output_shape # Unset =>
          DropsOnlyNoShape(shape_tracker.output, shape_tracker.output_shape[1])

\* C15: in a session run with a combinator of N kinds, once a tracker has
\* been created the session's shared dict holds the slots 0 .. N-1 and keeps
\* them; the i-th instance of every result-list entry refers to the slot
\* keyed i (0-based), so the i-th instances of all entries share one map and
\* instances at different positions never refer to the same map.
C15_SlotPerPosition ==
    \A s \in Started :
        (sess[s].factory.combo /\ sess[s].all_trackers # <<>>) =>
            LET N == Len(sess[s].factory.kinds)
                inst(j) == sess[s].all_trackers[j].instances
                entries == 1..Len(sess[s].all_trackers)
            IN /\ DOMAIN sess[s].shared_dict = 0..(N - 1)
               /\ \A j \in entries :
                     /\ DOMAIN inst(j) = 1..N
                     /\ \A i \in 1..N :
                           /\ Len(inst(j)[i].shared_dict) = 1
                           /\ inst(j)[i].shared_dict[1] = i - 1
                           /\ inst(j)[i].shared_dict[1] \in DOMAIN sess[s].shared_dict
               /\ \A j, k \in entries : \A i \in 1..N :
                     inst(j)[i].shared_dict = inst(k)[i].shared_dict
               /\ \A j, k \in entries : \A i, h \in 1..N :
                     i # h => inst(j)[i].shared_dict # inst(k)[h].shared_dict

\* a session with the combinator of two kinds has ended with three entries
\* in its result list
C15_Witness ==
    \E s \in Started :
        /\ sess[s].factory.combo /\ Len(sess[s].factory.kinds) = 2
        /\ sess[s].state = "ended"
        /\ Len(sess[s].all_trackers) = 3

\* the step is a call of add that ended with the invalid-argument error
AddFailed == last_error' = "ValueError" /\ heap' = heap

\* C16: add(None) ends with the ValueError and leaves the set as it was:
\* self.data is unchanged and every membership query answers as before.
C16_AddNoneLeavesSet ==
    [][/\ AddNone => last_error' = "ValueError"
       /\ AddFailed =>
             /\ data' = data
             /\ \A x \in 1..Len(heap) : Contains(x)' = Contains(x)]_vars

\* add(None) has failed on a set that holds a living object, a reclaimed
\* one, and not a third, living one
C16_Witness ==
    /\ last_error = "ValueError"
    /\ \E x \in Alive : Contains(x)
    /\ \E x \in Alive : ~Contains(x)
    /\ \E x \in added : ~heap[x].alive

\* the hooks in hs that do not belong to owner o (a session, or 0: the caller)
NotOf(o, hs) == SelectSeq(hs, LAMBDA h : h.sess # o)

\* the hooks in hs that belong to owner o
Of(o, hs) == SelectSeq(hs, LAMBDA h : h.sess = o)

\* C17: no step changes the children or the kind of a node (and so its
\* parameters); a step changes only the interceptors of the session that
\* begins, runs or ends in it: begin adds the session's own interceptors
\* to what each node carries, end takes exactly them away, and nothing else
\* changes what a node carries, so after end each node carries what it
\* carried before begin.
C17_OnlyOwnInterceptors ==
    [][/\ parent' = parent /\ kind' = kind
       /\ \A m \in Nodes : \A o \in {0} \cup Sessions :
             ~(o \in Sessions /\ (cur = o \/ cur' = o)) =>
                /\ Of(o, forward_pre_hooks'[m]) = Of(o, forward_pre_hooks[m])
                /\ Of(o, forward_hooks'[m]) = Of(o, forward_hooks[m])
       /\ \A s \in Sessions : \A m \in Nodes :
             /\ (sess[s].state = "new" /\ sess'[s].state = "active") =>
                   /\ NotOf(s, forward_pre_hooks'[m]) = forward_pre_hooks[m]
                   /\ NotOf(s, forward_hooks'[m]) = forward_hooks[m]
             /\ (sess[s].state = "active" /\ sess'[s].state = "active") =>
                   /\ forward_pre_hooks'[m] = forward_pre_hooks[m]
                   /\ forward_hooks'[m] = forward_hooks[m]
             /\ (sess[s].state = "active" /\ sess'[s].state = "ended") =>
                   /\ forward_pre_hooks'[m] = NotOf(s, forward_pre_hooks[m])
                   /\ forward_hooks'[m] = NotOf(s, forward_hooks[m])]_vars

\* a session that ran a module carrying both a hook of the caller and one of
\* the session has ended by an exception, and the caller's hook is in place
C17_Witness ==
    \E s \in Sessions : \E m \in Instrumented(s) :
        /\ sess[s].state = "ended" /\ sess[s].propagated # None
        /\ \E i \in 1..Len(sess[s].entered) : sess[s].entered[i].node = m
        /\ forward_pre_hooks[m] = <<CallerHook>>
        /\ forward_hooks[m] = <<CallerHook>>

\* the step is the return of a forward whose module carries an exit
\* interceptor of session s, while the call stack of s is empty
ExitWithoutEntry(s) ==
    /\ Return
    /\ HooksOf(s, forward_hooks[Top]) > 0
    /\ sess[s].tracker_stack = <<>>

\* C18: when an exit interceptor of a session fires while the session's call
\* stack is empty, it raises (IndexError) into the computation; no post is
\* called for that exit and the result list stays as it is.
C18_UnderflowRaises ==
    [][\A s \in Sessions :
          ExitWithoutEntry(s) =>
              /\ exc' = "IndexError"
              /\ sess'[s].error = "IndexError"
              /\ sess'[s].n_post = sess[s].n_post
              /\ sess'[s].all_trackers = sess[s].all_trackers]_vars

\* a session opened inside the forward of the root has recorded a completed
\* execution of a child, and the exit of the root has then found the call
\* stack empty
C18_Witness ==
    \E s \in Sessions :
        /\ sess[s].error = "IndexError" /\ exc = "IndexError"
        /\ sess[s].n_post > 0
        /\ sess[s].tracker_stack = <<>>

\* the positions of pyStack whose module session s has instrumented, ascending
InstrumentedFrames(s) ==
    SetToSeq({p \in 1..Len(pyStack) : pyStack[p] \in Instrumented(s)})

\* the forward frames session s sees: those of the computation in its
\* with-body; none once it has ended
Entered(s) == IF cur = s THEN InstrumentedFrames(s) ELSE <<>>

\* C19: in a session where no forward has raised, the call stack holds, from
\* the outermost to the innermost, exactly the trackers created at the entry
\* of the instrumented modules that are being executed; each of them is in
\* the result list and has had no post, every other tracker has had its
\* post; the stack is empty whenever no module is being executed.
C19_StackMirrorsFrames ==
    \A s \in Started :
        ~sess[s].raised =>
            LET S == sess[s]
                F == Entered(s)
            IN /\ Len(S.tracker_stack) = Len(F)
               /\ \A k \in 1..Len(S.tracker_stack) :
                     LET ref == S.tracker_stack[k]
                     IN /\ ref \in 1..Len(S.all_trackers)
                        /\ S.entered[ref].node = pyStack[F[k]]
                        /\ S.entered[ref].frames = SubSeq(pyStack, 1, F[k] - 1)
               /\ \A i \in 1..Len(S.all_trackers) :
                     \A j \in DOMAIN Instances(S.all_trackers[i]) :
                         Instances(S.all_trackers[i])[j].post_calls =
                             IF i \in Range(S.tracker_stack) THEN 0 ELSE 1
               /\ pyStack = <<>> => S.tracker_stack = <<>>

\* after a completed execution, a module and one of its children are being
\* executed: two trackers are on the stack and a third one is not
C19_Witness ==
    \E s \in Started :
        /\ ~sess[s].raised /\ cur = s
        /\ Len(pyStack) = 2
        /\ sess[s].tracker_stack = <<2, 3>>

====
